---- MODULE Spec2Model ----
(***************************************************************************)
(* Model of the CEP -> weather lookup pipeline of pimentafm/otel-go:       *)
(*   svc-a  (edge)     App.HandleWeatherRequest, isValidCEP, callServiceB  *)
(*   svc-b  (internal) WeatherHandler.GetWeatherByCEP / GetWeatherByCEPPost *)
(*                     processWeatherRequest, handleCEPError,              *)
(*                     handleWeatherError, respondWithJSON                 *)
(*                     ViaCEPService.GetCityByCEP                          *)
(*                     WeatherAPIService.GetTemperature, round             *)
(*                                                                         *)
(* Strings that the code inspects byte by byte (postal codes) are          *)
(* sequences of ASCII codes.  Temperatures are fixed point: upstream       *)
(* values are in 1/1000 degree, intermediate values in 1/10000 degree,     *)
(* rounded results in 1/100 degree.  Time is in milliseconds, measured     *)
(* per request from the moment the request enters the system.              *)
(* A handler is split into steps at its network I/O boundaries only.       *)
(***************************************************************************)
EXTENDS Integers, Sequences, FiniteSets, TLC

\* ------------------------------------------------------------------ bounds
NReq == 2
MaxFail == 3
SlowMs == 2500

\* ------------------------------------------------------- program constants
maxRetries == 3
CEPLen == 8
ResolverTimeoutMs == 5000
OrchestratorTimeoutMs == 15000

Reqs == 1..NReq

\* ------------------------------------------------------------ input values
\* "22450000"
CepPlain == <<50, 50, 52, 53, 48, 48, 48, 48>>
\* "22450-000"
CepDashed == <<50, 50, 52, 53, 48, 45, 48, 48, 48>>
\* "2245.0000"
CepDotted == <<50, 50, 52, 53, 46, 48, 48, 48, 48>>
\* "123"
CepShort == <<49, 50, 51>>
\* "abcdefgh"
CepLetters == <<97, 98, 99, 100, 101, 102, 103, 104>>

RawCodes == {CepPlain, CepDashed, CepDotted, CepShort, CepLetters}

\* values of the environment variable WEATHER_API_KEY: unset/empty, a usable
\* key, and a key holding a control byte (url.Parse rejects the request URL)
APIKeys == {"", "key", "key\n"}

\* ------------------------------------------------------------ pure helpers
\* strings.ReplaceAll(s, old, "") for a one-byte old
ReplaceAll(s, old) == SelectSeq(s, LAMBDA c : c # old)

\* the two ReplaceAll calls of the svc-b entry points ('-' is 45, '.' is 46)
Normalize(s) == ReplaceAll(ReplaceAll(s, 45), 46)

\* processWeatherRequest: if len(cep) != 8 { 422 }
LenOK(cep) == Len(cep) = CEPLen

\* svc-a isValidCEP: len(cep) == 8 and every c has '0' <= c <= '9'
isValidCEP(cep) ==
    /\ Len(cep) = CEPLen
    /\ \A i \in 1..Len(cep) : ~(cep[i] < 48 \/ cep[i] > 57)

\* json.Marshal(CepRequest{Cep: cep}) and json.Unmarshal(body, &req)
MarshalCepRequest(cep) == [cep |-> cep]

\* mutant of UnmarshalCepRequest: the field is not bound to the key "cep"
UnmarshalCepRequestUnbound(payload) == <<>>

UnmarshalCepRequest(payload) == payload.cep

\* The body of an inbound POST: "ok" (a JSON object with a string field cep),
\* "unreadable" (io.ReadAll fails), "unparsable" (json.Unmarshal fails)
BodyKinds == {"ok", "unreadable", "unparsable"}

\* mutant of DecodeRequest: the error of json.Unmarshal is ignored
DecodeRequestLenient(kind) ==
    IF kind = "unreadable" THEN "invalid request body" ELSE ""

\* io.ReadAll(r.Body) and json.Unmarshal(body, &req) of both POST handlers:
\* the message of the 400 response, "" when the body is accepted
DecodeRequest(kind) ==
    IF kind = "unreadable" THEN "invalid request body"
    ELSE IF kind = "unparsable" THEN "invalid request format"
    ELSE ""

\* json.Marshal(payload): the bytes of the JSON value
JSONMarshal(payload) == [json |-> payload, newline |-> FALSE]
\* json.NewEncoder(w).Encode(payload): the JSON value followed by '\n'
JSONEncode(payload) == [json |-> payload, newline |-> TRUE]

ErrorResponse(message) == [error |-> message]
NoBody == [json |-> [error |-> ""], newline |-> FALSE]

\* error values: a sentinel that errors.Is can match, and the message
Err(s, d) == [sentinel |-> s, detail |-> d]
NoErr == Err("nil", "")

\* ------------------------------------------------- geocoding upstream (ViaCEP)
\* What the geocoding upstream does with a request.  kind "transport": client.Do
\* returns an error; kind "response": a response with this status and body.
GeoAnswer(kind, status, parsable, erro, localidade) ==
    [kind |-> kind, status |-> status, parsable |-> parsable,
     erro |-> erro, localidade |-> localidade]

GeoUnset == GeoAnswer("unset", 0, FALSE, FALSE, "")

GeoBehaviours ==
    { GeoAnswer("transport", 0, FALSE, FALSE, ""),
      GeoAnswer("response", 400, TRUE, FALSE, ""),
      GeoAnswer("response", 200, FALSE, FALSE, ""),
      GeoAnswer("response", 200, TRUE, TRUE, ""),
      GeoAnswer("response", 200, TRUE, FALSE, ""),
      GeoAnswer("response", 200, TRUE, FALSE, "Rio de Janeiro"),
      GeoAnswer("response", 200, TRUE, FALSE, "Belo Horizonte") }

\* mutant of CityMissing: the empty localidade is let through
CityMissingNever(localidade) == FALSE

\* GetCityByCEP: if viaCEPResp.Localidade == "" { return "", ErrZipCodeNotFound }
CityMissing(localidade) == localidade = ""

\* mutant of GeoRetry: a failed client.Do is repeated once
GeoRetryOnTransport(res, calls) == res.err.sentinel = "transport" /\ calls < 2

\* GetCityByCEP has no loop around its client.Do: whatever the result res of
\* the classification and the number of calls made, it returns
GeoRetry(res, calls) == FALSE

\* mutant of GetCityByCEPResult: an unparsable body is reported as not found
GetCityByCEPResultParseNotFound(g) ==
    IF g.kind = "transport"
    THEN [city |-> "", err |-> Err("transport", "failed to send request")]
    ELSE IF g.status # 200 \/ ~g.parsable \/ g.erro \/ g.localidade = ""
    THEN [city |-> "", err |-> Err("ErrZipCodeNotFound", "can not find zipcode")]
    ELSE [city |-> g.localidade, err |-> NoErr]

\* ViaCEPService.GetCityByCEP from client.Do on: the classification of the
\* upstream's answer, in the order of the code
GetCityByCEPResult(g) ==
    IF g.kind = "transport"
    THEN [city |-> "", err |-> Err("transport", "failed to send request")]
    ELSE IF g.status # 200
    THEN [city |-> "", err |-> Err("ErrZipCodeNotFound", "can not find zipcode")]
    ELSE IF ~g.parsable
    THEN [city |-> "", err |-> Err("ErrInternalServer", "internal server error")]
    ELSE IF g.erro
    THEN [city |-> "", err |-> Err("ErrZipCodeNotFound", "can not find zipcode")]
    ELSE IF CityMissing(g.localidade)
    THEN [city |-> "", err |-> Err("ErrZipCodeNotFound", "can not find zipcode")]
    ELSE [city |-> g.localidade, err |-> NoErr]

\* ---------------------------------------------------- weather upstream
\* A response of the weather upstream: HTTP status, whether the body decodes
\* as WeatherAPIResponse, error.code, error.message, current.temp_c and
\* current.temp_f (1/1000 degree; 0 when the field is absent).
WeatherAnswer(status, decodable, code, message, tc, tf) ==
    [status |-> status, decodable |-> decodable, code |-> code,
     message |-> message, temp_c |-> tc, temp_f |-> tf]

WeatherAnswers ==
    { WeatherAnswer(200, TRUE, 0, "", 25000, 77000),
      WeatherAnswer(200, TRUE, 0, "", 25000, 0),
      WeatherAnswer(200, TRUE, 0, "", -20000, 0),
      WeatherAnswer(200, TRUE, 1006, "No matching location found.", 0, 0),
      WeatherAnswer(400, TRUE, 1006, "No matching location found.", 0, 0),
      WeatherAnswer(403, TRUE, 2008, "API key has been disabled.", 0, 0),
      WeatherAnswer(502, FALSE, 0, "", 0, 0) }

\* the *http.Response held by the variable resp of GetTemperature
NilResp == [nil |-> TRUE, open |-> FALSE, answer |-> WeatherAnswer(0, FALSE, 0, "", 0, 0)]
ClosedResp == [nil |-> FALSE, open |-> FALSE, answer |-> WeatherAnswer(0, FALSE, 0, "", 0, 0)]
HTTPResp(a) == [nil |-> FALSE, open |-> TRUE, answer |-> a]

\* The behaviour of the weather upstream, the same for every call: the first
\* failFirst attempts of a call fail at transport level (client.Do returns an
\* error together with failResp: nil, or a response whose body is already
\* closed, as http.Client does when the redirect policy fails), later attempts
\* receive the answer; slow: an attempt takes SlowMs instead of no time.
WeatherUnset ==
    [set |-> FALSE, failFirst |-> 0, failResp |-> NilResp, slow |-> FALSE,
     answer |-> WeatherAnswer(0, FALSE, 0, "", 0, 0)]

\* Behaviours that no call can tell apart are listed once: failResp matters
\* only when some attempt fails, the answer only when some attempt of a call
\* can receive it; a slow upstream either answers the first attempt or fails
\* it (the second attempt then runs into the deadline).  The classification
\* of an answer does not look at the attempt that received it or at the time:
\* every answer is tried on a first attempt of a fast upstream, a success and
\* a failure status after retries.
FirstAnswer == WeatherAnswer(200, TRUE, 0, "", 25000, 77000)
RetriedAnswers ==
    { FirstAnswer, WeatherAnswer(400, TRUE, 1006, "No matching location found.", 0, 0) }

WeatherBehaviours ==
    { w \in [set : {TRUE}, failFirst : 0..MaxFail, failResp : {NilResp, ClosedResp},
             slow : BOOLEAN, answer : WeatherAnswers] :
        /\ w.failFirst = 0 => w.failResp = NilResp
        /\ w.failFirst > 0 => w.answer \in RetriedAnswers
        /\ w.failFirst >= maxRetries => w.answer = FirstAnswer
        /\ w.slow => /\ w.failFirst <= 1
                     /\ w.failResp = NilResp
                     /\ w.answer = FirstAnswer }

\* ------------------------------------------- WeatherAPIService.GetTemperature
\* mutant of KeyConfigured: the credential check is dropped
KeyConfiguredAlways(key) == TRUE

\* os.Getenv("WEATHER_API_KEY") == "" is the missing-credential case
KeyConfigured(key) == key # ""

\* http.NewRequestWithContext succeeds iff url.Parse accepts the request URL,
\* which holds the key verbatim: a control byte in it is rejected
RequestBuilds(key) == key # "key\n"

\* mutant of LoopCond: one attempt too many
LoopCondOffByOne(a) == a <= maxRetries + 1

\* for attempt := 1; attempt <= maxRetries; attempt++
LoopCond(a) == a <= maxRetries

\* context.WithTimeout(parent, d) at time t: the earlier of the parent's
\* deadline and t + d
WithTimeout(parent, t, d) == IF t + d < parent THEN t + d ELSE parent

\* mutant of Backoff: a constant delay instead of a linear one
BackoffFlat(attempt) == 100

\* time.Duration(attempt*100) * time.Millisecond
Backoff(attempt) == attempt * 100

\* int(x): conversion of a float64 to int truncates toward zero
TruncDiv(a, b) == IF a >= 0 THEN a \div b ELSE -((-a) \div b)

\* round(num, 2) == float64(int(num*100+0.5)) / 100, num in 1/10000 degree,
\* result in 1/100 degree
round(num) == TruncDiv(num + 50, 100)

Temperature(c, f, k) == [TempC |-> c, TempF |-> f, TempK |-> k]
NoTemperature == Temperature(0, 0, 0)

\* lines 124-147: tempC, tempF (the upstream's when non-zero, else
\* tempC*1.8+32), tempK = tempC+273.15, each rounded
Temperatures(a) ==
    LET tempC == a.temp_c * 10
        tempF == IF a.temp_f # 0 THEN a.temp_f * 10 ELSE a.temp_c * 18 + 320000
        tempK == a.temp_c * 10 + 2731500
    IN  Temperature(round(tempC), round(tempF), round(tempK))

\* mutant of DoOutcome: a response with a status other than 200 is treated
\* as a failed attempt
DoOutcomeRetryStatus(w, a, t, dl) ==
    LET d == IF w.slow THEN SlowMs ELSE 0 IN
    IF t >= dl THEN [ok |-> FALSE, resp |-> NilResp, end |-> t]
    ELSE IF t + d >= dl THEN [ok |-> FALSE, resp |-> NilResp, end |-> dl]
    ELSE IF a <= w.failFirst THEN [ok |-> FALSE, resp |-> w.failResp, end |-> t + d]
    ELSE [ok |-> w.answer.status = 200, resp |-> HTTPResp(w.answer), end |-> t + d]

\* client.Do of one attempt that starts at time t under a context whose
\* deadline is dl: the error/response pair it returns and the time it returns
DoOutcome(w, a, t, dl) ==
    LET d == IF w.slow THEN SlowMs ELSE 0 IN
    IF t >= dl THEN [ok |-> FALSE, resp |-> NilResp, end |-> t]
    ELSE IF t + d >= dl THEN [ok |-> FALSE, resp |-> NilResp, end |-> dl]
    ELSE IF a <= w.failFirst THEN [ok |-> FALSE, resp |-> w.failResp, end |-> t + d]
    ELSE [ok |-> TRUE, resp |-> HTTPResp(w.answer), end |-> t + d]

\* mutant of AfterLoop: error code 1006 is not told apart from other errors
AfterLoopNoCityCheck(e, rsp) ==
    IF e # NoErr
    THEN [panic |-> FALSE, temp |-> NoTemperature,
          err |-> Err("transport", "all weather API requests failed")]
    ELSE IF rsp.nil
    THEN [panic |-> TRUE, temp |-> NoTemperature, err |-> NoErr]
    ELSE IF ~rsp.open \/ ~rsp.answer.decodable
    THEN [panic |-> FALSE, temp |-> NoTemperature,
          err |-> Err("decode", "failed to decode API response")]
    ELSE IF rsp.answer.status # 200
    THEN [panic |-> FALSE, temp |-> NoTemperature,
          err |-> Err("ErrWeatherAPIFailed", rsp.answer.message)]
    ELSE [panic |-> FALSE, temp |-> Temperatures(rsp.answer), err |-> NoErr]

\* lines 96-147, after the retry loop: e is the function-level err, rsp the
\* function-level resp.  panic: resp.Body of a nil resp is dereferenced.
AfterLoop(e, rsp) ==
    IF e # NoErr
    THEN [panic |-> FALSE, temp |-> NoTemperature,
          err |-> Err("transport", "all weather API requests failed")]
    ELSE IF rsp.nil
    THEN [panic |-> TRUE, temp |-> NoTemperature, err |-> NoErr]
    ELSE IF ~rsp.open \/ ~rsp.answer.decodable
    THEN [panic |-> FALSE, temp |-> NoTemperature,
          err |-> Err("decode", "failed to decode API response")]
    ELSE IF rsp.answer.status # 200
    THEN IF rsp.answer.code = 1006
         THEN [panic |-> FALSE, temp |-> NoTemperature,
               err |-> Err("ErrCityNotFound", "city not found")]
         ELSE [panic |-> FALSE, temp |-> NoTemperature,
               err |-> Err("ErrWeatherAPIFailed", rsp.answer.message)]
    ELSE [panic |-> FALSE, temp |-> Temperatures(rsp.answer), err |-> NoErr]

\* ------------------------------------------------------- WeatherHandler
\* mutant of IsErr: the handler does not look at the error of a stage
IsErrIgnored(e) == FALSE

\* processWeatherRequest: if err != nil { handle...Error; return }
IsErr(e) == e # NoErr

Reply(code, body) == [status |-> code, body |-> body]

\* respondWithJSON: json.Marshal of the payload, WriteHeader(code), Write
respondWithJSON(code, payload) == Reply(code, JSONMarshal(payload))

\* respondWithError
respondWithErrorB(code, message) == respondWithJSON(code, ErrorResponse(message))

\* mutant of handleCEPError: the ErrZipCodeNotFound case is missing
handleCEPErrorNoNotFound(e) ==
    IF e.sentinel = "ErrInvalidZipCode" THEN respondWithErrorB(422, "invalid zipcode")
    ELSE respondWithErrorB(500, "internal server error")

handleCEPError(e) ==
    IF e.sentinel = "ErrInvalidZipCode" THEN respondWithErrorB(422, "invalid zipcode")
    ELSE IF e.sentinel = "ErrZipCodeNotFound" THEN respondWithErrorB(404, "can not find zipcode")
    ELSE respondWithErrorB(500, "internal server error")

handleWeatherError(e) ==
    IF e.sentinel = "ErrAPIKeyNotConfigured"
    THEN respondWithErrorB(500, "weather service configuration error")
    ELSE IF e.sentinel = "ErrCityNotFound"
    THEN respondWithErrorB(404, "city not found in weather service")
    ELSE respondWithErrorB(500, "failed to get weather data")

\* mutant of WeatherResponse: Fahrenheit and Kelvin exchanged
WeatherResponseSwapped(c, t) ==
    [city |-> c, temp_C |-> t.TempC, temp_F |-> t.TempK, temp_K |-> t.TempF]

\* processWeatherRequest lines 126-133: the success payload
WeatherResponse(c, t) ==
    [city |-> c, temp_C |-> t.TempC, temp_F |-> t.TempF, temp_K |-> t.TempK]

\* ------------------------------------------------------------- svc-a
\* svc-a respondWithError: WriteHeader(code), json.NewEncoder(w).Encode
respondWithErrorA(code, message) == Reply(code, JSONEncode(ErrorResponse(message)))

\* mutant of Relay: the status of svc-b is replaced by 200
RelayAlwaysOK(statusCode, response) == Reply(200, response)

\* HandleWeatherRequest lines 254-256: w.WriteHeader(statusCode); w.Write(response)
Relay(statusCode, response) == Reply(statusCode, response)

\* ------------------------------------------------------------------ state
VARIABLES
    apiKey,     \* svc-b environment: WEATHER_API_KEY
    geoUp,      \* behaviour of the geocoding upstream, fixed at its first use
    weatherUp,  \* behaviour of the weather upstream, fixed at its first use
    entry,      \* per request: "edge" (svc-a POST /weather), "post" or "get" (svc-b)
    raw,        \* per request: the raw postal code sent by the caller
    body,       \* per request: the kind of body of the caller's POST
    epc,        \* svc-a handler position: "idle", "start", "calling", "done"
    hop,        \* svc-a -> svc-b call: "none", "ok", "refused"
    ereply,     \* response written by svc-a
    bcep,       \* postal code as it reaches svc-b (path variable or body field)
    pc,         \* svc-b handler position: "idle", "start", "geo", "weather",
                \*   "classify", "done", "panic"
    cep,        \* processWeatherRequest's cep argument
    geoCalls,   \* number of client.Do calls to the geocoding upstream
    city,       \* city returned by GetCityByCEP
    gerr,       \* error returned by GetCityByCEP
    attempt,    \* GetTemperature: loop variable
    resp,       \* GetTemperature: function-level resp
    err,        \* GetTemperature: function-level err
    now,        \* time elapsed in this request
    deadline,   \* GetTemperature: deadline of context.WithTimeout(ctx, 5s)
    sleeps,     \* GetTemperature: durations of the time.Sleep calls, in order
    sendAt,     \* GetTemperature: start times of the client.Do calls, in order
    results,    \* GetTemperature: what each client.Do returned, in order:
                \*   "error" (err != nil) or "response" (err == nil)
    temp,       \* Temperature returned by GetTemperature
    werr,       \* error returned by GetTemperature
    breply,     \* response written by svc-b
    writes      \* number of WriteHeader calls on svc-b's ResponseWriter

world == <<apiKey, geoUp, weatherUp>>
inputs == <<entry, raw, body>>
edge == <<epc, hop, ereply>>
geo == <<geoCalls, city, gerr>>
loop == <<attempt, resp, err, now, deadline, sleeps, sendAt, results>>
wres == <<temp, werr>>
vars == <<world, inputs, edge, bcep, pc, cep, geo, loop, wres, breply, writes>>

\* Request 1 is any request; the others are well-formed requests made
\* directly to svc-b, with the same raw code as request 1 or with "22450000";
\* requests after the second repeat the second.
Entries == {"edge", "post", "get"}
NoReply == Reply(0, NoBody)

Init ==
    /\ apiKey \in APIKeys
    /\ geoUp = GeoUnset
    /\ weatherUp = WeatherUnset
    /\ entry \in [Reqs -> Entries]
    /\ raw \in [Reqs -> RawCodes]
    /\ body \in [Reqs -> BodyKinds]
    /\ \A r \in Reqs : (entry[r] = "get" \/ r # 1) => body[r] = "ok"
    /\ \A r \in Reqs \ {1} : entry[r] # "edge" /\ raw[r] \in {raw[1], CepPlain}
    /\ \A r \in Reqs \ {1, 2} : entry[r] = entry[2] /\ raw[r] = raw[2]
    /\ epc = [r \in Reqs |-> IF entry[r] = "edge" THEN "start" ELSE "idle"]
    /\ hop = [r \in Reqs |-> "none"]
    /\ ereply = [r \in Reqs |-> NoReply]
    /\ bcep = [r \in Reqs |-> IF entry[r] = "edge" THEN <<>> ELSE raw[r]]
    /\ pc = [r \in Reqs |-> IF entry[r] = "edge" THEN "idle" ELSE "start"]
    /\ cep = [r \in Reqs |-> <<>>]
    /\ geoCalls = [r \in Reqs |-> 0]
    /\ city = [r \in Reqs |-> ""]
    /\ gerr = [r \in Reqs |-> NoErr]
    /\ attempt = [r \in Reqs |-> 0]
    /\ resp = [r \in Reqs |-> NilResp]
    /\ err = [r \in Reqs |-> NoErr]
    /\ now = [r \in Reqs |-> 0]
    /\ deadline = [r \in Reqs |-> 0]
    /\ sleeps = [r \in Reqs |-> <<>>]
    /\ sendAt = [r \in Reqs |-> <<>>]
    /\ results = [r \in Reqs |-> <<>>]
    /\ temp = [r \in Reqs |-> NoTemperature]
    /\ werr = [r \in Reqs |-> NoErr]
    /\ breply = [r \in Reqs |-> NoReply]
    /\ writes = [r \in Reqs |-> 0]

\* --------------------------------------------------------------- svc-a
\* App.HandleWeatherRequest up to the client.Do of callServiceB: decode the
\* body, validate, then either answer 422 or send the POST to svc-b
HandleWeatherRequest(r) ==
    /\ epc[r] = "start"
    /\ LET c == IF body[r] = "ok"
                THEN UnmarshalCepRequest(MarshalCepRequest(raw[r]))
                ELSE <<>>
       IN
       IF DecodeRequest(body[r]) # ""
       THEN /\ ereply' = [ereply EXCEPT
                  ![r] = respondWithErrorA(400, DecodeRequest(body[r]))]
            /\ epc' = [epc EXCEPT ![r] = "done"]
            /\ UNCHANGED <<hop, bcep, pc>>
       ELSE IF ~isValidCEP(c)
       THEN /\ ereply' = [ereply EXCEPT ![r] = respondWithErrorA(422, "invalid zipcode")]
            /\ epc' = [epc EXCEPT ![r] = "done"]
            /\ UNCHANGED <<hop, bcep, pc>>
       ELSE \E h \in {"ok", "refused"} :
            /\ hop' = [hop EXCEPT ![r] = h]
            /\ IF h = "refused"
               THEN /\ ereply' = [ereply EXCEPT
                          ![r] = respondWithErrorA(500, "error calling service B")]
                    /\ epc' = [epc EXCEPT ![r] = "done"]
                    /\ UNCHANGED <<bcep, pc>>
               ELSE /\ epc' = [epc EXCEPT ![r] = "calling"]
                    /\ bcep' = [bcep EXCEPT
                          ![r] = UnmarshalCepRequest(MarshalCepRequest(c))]
                    /\ pc' = [pc EXCEPT ![r] = "start"]
                    /\ UNCHANGED ereply
    /\ UNCHANGED <<world, inputs, cep, geo, loop, wres, breply, writes>>

\* callServiceB returns and HandleWeatherRequest finishes: svc-b has answered,
\* or its handler panicked and net/http closed the connection (client.Do
\* returns an error)
EdgeReturn(r) ==
    /\ epc[r] = "calling"
    /\ pc[r] \in {"done", "panic"}
    /\ ereply' = [ereply EXCEPT ![r] =
          IF pc[r] = "panic"
          THEN respondWithErrorA(500, "error calling service B")
          ELSE Relay(breply[r].status, breply[r].body)]
    /\ epc' = [epc EXCEPT ![r] = "done"]
    /\ UNCHANGED <<world, inputs, hop, bcep, pc, cep, geo, loop, wres, breply, writes>>

\* --------------------------------------------------------------- svc-b
\* mutant of processWeatherRequest: the return after the 422 response is
\* missing
processWeatherRequestNoReturn(r, c) ==
    /\ cep' = [cep EXCEPT ![r] = c]
    /\ IF ~LenOK(c)
       THEN /\ breply' = [breply EXCEPT ![r] = respondWithErrorB(422, "invalid zipcode")]
            /\ writes' = [writes EXCEPT ![r] = @ + 1]
            /\ geoCalls' = [geoCalls EXCEPT ![r] = @ + 1]
            /\ pc' = [pc EXCEPT ![r] = "geo"]
            /\ UNCHANGED gerr
       ELSE /\ geoCalls' = [geoCalls EXCEPT ![r] = @ + 1]
            /\ pc' = [pc EXCEPT ![r] = "geo"]
            /\ UNCHANGED <<gerr, breply, writes>>
    /\ UNCHANGED <<world, inputs, edge, bcep, city, loop, wres>>

\* processWeatherRequest from its start up to the client.Do of GetCityByCEP:
\* the length check, then GetCityByCEP's own normalisation and length check,
\* then the request to the geocoding upstream
processWeatherRequest(r, c) ==
    /\ cep' = [cep EXCEPT ![r] = c]
    /\ IF ~LenOK(c)
       THEN /\ breply' = [breply EXCEPT ![r] = respondWithErrorB(422, "invalid zipcode")]
            /\ writes' = [writes EXCEPT ![r] = @ + 1]
            /\ pc' = [pc EXCEPT ![r] = "done"]
            /\ UNCHANGED <<geoCalls, gerr>>
       ELSE IF Len(Normalize(c)) # CEPLen
       THEN /\ gerr' = [gerr EXCEPT ![r] = Err("ErrInvalidZipCode", "invalid zipcode")]
            /\ breply' = [breply EXCEPT
                  ![r] = handleCEPError(Err("ErrInvalidZipCode", "invalid zipcode"))]
            /\ writes' = [writes EXCEPT ![r] = @ + 1]
            /\ pc' = [pc EXCEPT ![r] = "done"]
            /\ UNCHANGED geoCalls
       ELSE /\ geoCalls' = [geoCalls EXCEPT ![r] = @ + 1]
            /\ pc' = [pc EXCEPT ![r] = "geo"]
            /\ UNCHANGED <<gerr, breply, writes>>
    /\ UNCHANGED <<world, inputs, edge, bcep, city, loop, wres>>

\* GET /weather/{cep}
GetWeatherByCEP(r) ==
    /\ pc[r] = "start"
    /\ entry[r] = "get"
    /\ processWeatherRequest(r, Normalize(bcep[r]))

\* POST /weather with body {"cep": ...}, from a caller or from svc-a (whose
\* body is always the output of json.Marshal)
GetWeatherByCEPPost(r) ==
    /\ pc[r] = "start"
    /\ entry[r] \in {"post", "edge"}
    /\ LET kind == IF entry[r] = "edge" THEN "ok" ELSE body[r] IN
       IF DecodeRequest(kind) # ""
       THEN /\ breply' = [breply EXCEPT
                  ![r] = respondWithErrorB(400, DecodeRequest(kind))]
            /\ writes' = [writes EXCEPT ![r] = @ + 1]
            /\ pc' = [pc EXCEPT ![r] = "done"]
            /\ UNCHANGED <<world, inputs, edge, bcep, cep, geo, loop, wres>>
       ELSE processWeatherRequest(r,
                Normalize(IF kind = "ok"
                          THEN UnmarshalCepRequest(MarshalCepRequest(bcep[r]))
                          ELSE <<>>))

\* mutant of SetAttempt: the loop counter is a field of the WeatherAPIService
\* that all requests share
SetAttemptShared(r, v) == [q \in Reqs |-> v]

\* attempt := 1 and attempt++ (line 77): the counter is a local of the
\* GetTemperature call of request r
SetAttempt(r, v) == [attempt EXCEPT ![r] = v]

\* The geocoding upstream answers: the rest of GetCityByCEP, then either
\* handleCEPError or the start of GetTemperature up to its retry loop
GeoReturn(r) ==
    /\ pc[r] = "geo"
    /\ \E g \in (IF geoUp.kind = "unset" THEN GeoBehaviours ELSE {geoUp}) :
       LET res == GetCityByCEPResult(g) IN
       /\ geoUp' = g
       /\ IF GeoRetry(res, geoCalls[r])
          THEN /\ geoCalls' = [geoCalls EXCEPT ![r] = @ + 1]
               /\ UNCHANGED <<gerr, city, werr, attempt, deadline, breply, writes, pc>>
          ELSE /\ gerr' = [gerr EXCEPT ![r] = res.err]
               /\ city' = [city EXCEPT ![r] = res.city]
               /\ UNCHANGED geoCalls
               /\ IF IsErr(res.err)
                  THEN /\ breply' = [breply EXCEPT ![r] = handleCEPError(res.err)]
                       /\ writes' = [writes EXCEPT ![r] = @ + 1]
                       /\ pc' = [pc EXCEPT ![r] = "done"]
                       /\ UNCHANGED <<werr, attempt, deadline>>
                  ELSE IF ~KeyConfigured(apiKey)
                  THEN /\ werr' = [werr EXCEPT
                             ![r] = Err("ErrAPIKeyNotConfigured", "weather API key not configured")]
                       /\ breply' = [breply EXCEPT ![r] = handleWeatherError(
                               Err("ErrAPIKeyNotConfigured", "weather API key not configured"))]
                       /\ writes' = [writes EXCEPT ![r] = @ + 1]
                       /\ pc' = [pc EXCEPT ![r] = "done"]
                       /\ UNCHANGED <<attempt, deadline>>
                  ELSE /\ deadline' = [deadline EXCEPT ![r] =
                             WithTimeout(OrchestratorTimeoutMs, now[r], ResolverTimeoutMs)]
                       /\ attempt' = SetAttempt(r, 1)
                       /\ pc' = [pc EXCEPT ![r] = "weather"]
                       /\ UNCHANGED <<werr, breply, writes>>
    /\ UNCHANGED <<apiKey, weatherUp, inputs, edge, bcep, cep,
                   resp, err, now, sleeps, sendAt, results, temp>>

\* One iteration of the retry loop of GetTemperature (lines 77-94).  The err
\* assigned by NewRequestWithContext and client.Do is the one declared by :=
\* in the loop body; the function-level err is not assigned.
WeatherAttempt(r) ==
    /\ pc[r] = "weather"
    /\ LET a == attempt[r]
           next == IF LoopCond(a + 1) THEN "weather" ELSE "classify"
       IN
       IF ~RequestBuilds(apiKey)
       THEN /\ sleeps' = [sleeps EXCEPT ![r] = Append(@, Backoff(a))]
            /\ now' = [now EXCEPT ![r] = @ + Backoff(a)]
            /\ attempt' = SetAttempt(r, a + 1)
            /\ pc' = [pc EXCEPT ![r] = next]
            /\ UNCHANGED <<weatherUp, resp, sendAt, results>>
       ELSE \E w \in (IF weatherUp.set THEN {weatherUp} ELSE WeatherBehaviours) :
            LET out == DoOutcome(w, a, now[r], deadline[r]) IN
            /\ weatherUp' = w
            /\ sendAt' = [sendAt EXCEPT ![r] = Append(@, now[r])]
            /\ resp' = [resp EXCEPT ![r] = out.resp]
            /\ results' = [results EXCEPT
                  ![r] = Append(@, IF out.ok THEN "response" ELSE "error")]
            /\ IF out.ok
               THEN /\ now' = [now EXCEPT ![r] = out.end]
                    /\ pc' = [pc EXCEPT ![r] = "classify"]
                    /\ UNCHANGED <<attempt, sleeps>>
               ELSE /\ IF a < maxRetries
                       THEN /\ sleeps' = [sleeps EXCEPT ![r] = Append(@, Backoff(a))]
                            /\ now' = [now EXCEPT ![r] = out.end + Backoff(a)]
                       ELSE /\ now' = [now EXCEPT ![r] = out.end]
                            /\ UNCHANGED sleeps
                    /\ attempt' = SetAttempt(r, a + 1)
                    /\ pc' = [pc EXCEPT ![r] = next]
    /\ UNCHANGED <<apiKey, geoUp, inputs, edge, bcep, cep, geo, err, deadline,
                   wres, breply, writes>>

\* mutant of RespOf: resp is kept in a field of the WeatherAPIService shared
\* by all requests, last written on behalf of request 1
RespOfShared(r) == resp[1]

\* the variable resp of the GetTemperature call of request r (line 73)
RespOf(r) == resp[r]

\* GetTemperature after the loop (lines 96-147) and the rest of
\* processWeatherRequest (lines 120-133)
WeatherClassify(r) ==
    /\ pc[r] = "classify"
    /\ LET res == AfterLoop(err[r], RespOf(r)) IN
       IF res.panic
       THEN /\ pc' = [pc EXCEPT ![r] = "panic"]
            /\ UNCHANGED <<temp, werr, breply, writes>>
       ELSE /\ temp' = [temp EXCEPT ![r] = res.temp]
            /\ werr' = [werr EXCEPT ![r] = res.err]
            /\ breply' = [breply EXCEPT ![r] =
                  IF IsErr(res.err)
                  THEN handleWeatherError(res.err)
                  ELSE respondWithJSON(200, WeatherResponse(city[r], res.temp))]
            /\ writes' = [writes EXCEPT ![r] = @ + 1]
            /\ pc' = [pc EXCEPT ![r] = "done"]
    /\ UNCHANGED <<world, inputs, edge, bcep, cep, geo, loop>>

Next ==
    \E r \in Reqs :
        \/ HandleWeatherRequest(r)
        \/ EdgeReturn(r)
        \/ GetWeatherByCEP(r)
        \/ GetWeatherByCEPPost(r)
        \/ GeoReturn(r)
        \/ WeatherAttempt(r)
        \/ WeatherClassify(r)

Spec == Init /\ [][Next]_vars

\* ================================================================ claims
Terminal(r) == pc[r] \in {"done", "panic"}

\* the format rule of the specification: after removing '-' and '.', exactly
\* eight characters, each a decimal digit
EightDigits(s) ==
    LET n == SelectSeq(s, LAMBDA c : c \notin {45, 46}) IN
    /\ Len(n) = 8
    /\ \A i \in 1..Len(n) : n[i] \in 48..57

\* GetTemperature was called for request r
WeatherCalled(r) == city[r] # ""

\* the retry loop of request r ended because every attempt failed
Exhausted(r) == attempt[r] > maxRetries

\* C1: when all three attempts of a GetTemperature call fail at transport
\* level, the call returns the "all weather API requests failed" error
\* (UpstreamUnavailable), the response is 500, and at most three requests
\* were sent.
C1_Exhaustion ==
    \A r \in Reqs :
        (Terminal(r) /\ Exhausted(r)) =>
            /\ pc[r] = "done"
            /\ werr[r] = Err("transport", "all weather API requests failed")
            /\ breply[r].status = 500
            /\ Len(sendAt[r]) <= maxRetries

\* C2: svc-b lets a raw code through to the geocoding upstream exactly when
\* it is eight digits after removing '-' and '.'; every other code is
\* answered 422 "invalid zipcode" with no upstream call.
C2_Validation ==
    \A r \in Reqs :
        (pc[r] \notin {"idle", "start"} /\ body[r] = "ok") =>
            /\ (geoCalls[r] > 0) <=> EightDigits(raw[r])
            /\ ~EightDigits(raw[r]) =>
                   breply[r] = Reply(422, JSONMarshal([error |-> "invalid zipcode"]))

\* C3: when attempts 1 and 2 fail at transport level and attempt 3 receives a
\* response, the call slept 100ms after attempt 1 and 200ms after attempt 2
\* and its result is the classification of the attempt-3 response: success
\* with that response's temperature when it is a decodable 200, an error
\* otherwise.
C3_RetryBoundary ==
    \A r \in Reqs :
        (pc[r] \in {"classify", "done"} /\ Len(sendAt[r]) = 3 /\ resp[r].open) =>
            /\ sleeps[r] = <<100, 200>>
            /\ sendAt[r][2] - sendAt[r][1] >= 100
            /\ sendAt[r][3] - sendAt[r][2] >= 200
            /\ resp[r].answer = weatherUp.answer
            /\ pc[r] = "done" =>
                  IF weatherUp.answer.status = 200 /\ weatherUp.answer.decodable
                  THEN /\ werr[r] = NoErr
                       /\ breply[r].status = 200
                       /\ temp[r].TempC * 10 = weatherUp.answer.temp_c
                  ELSE /\ werr[r] # NoErr
                       /\ breply[r].status # 200

C3_Witness ==
    \E r \in Reqs :
        /\ pc[r] = "done"
        /\ Len(sendAt[r]) = 3
        /\ resp[r].open
        /\ weatherUp.failFirst = 2
        /\ breply[r].status = 200

\* C4: with WEATHER_API_KEY empty no request is ever sent to the weather
\* upstream, and every GetTemperature call, whatever the city, returns
\* ErrAPIKeyNotConfigured and no temperature.
C4_MissingCredential ==
    apiKey = "" =>
        \A r \in Reqs :
            /\ sendAt[r] = <<>>
            /\ pc[r] \notin {"weather", "classify", "panic"}
            /\ WeatherCalled(r) =>
                  /\ pc[r] = "done"
                  /\ werr[r].sentinel = "ErrAPIKeyNotConfigured"
                  /\ temp[r] = NoTemperature

C4_Witness ==
    \E r \in Reqs :
        /\ apiKey = ""
        /\ city[r] = "Belo Horizonte"
        /\ pc[r] = "done"
        /\ werr[r].sentinel = "ErrAPIKeyNotConfigured"

\* C5: a failure at validation or in the geocoding stage fixes svc-b's
\* response: a code rejected by the length check gets 422 "invalid zipcode";
\* a geocoding answer that is a non-200 status, or a parsed body with the erro
\* flag or an empty localidade, gets 404 "can not find zipcode"; a transport
\* error or an unparsable 200 body gets 500; nothing else occurs.
C5_GeoFailureMapping ==
    \A r \in Reqs :
        (pc[r] = "done" /\ body[r] = "ok" /\ ~WeatherCalled(r)) =>
            IF geoCalls[r] = 0
            THEN breply[r] = Reply(422, JSONMarshal([error |-> "invalid zipcode"]))
            ELSE IF geoUp.kind = "transport" \/ (geoUp.status = 200 /\ ~geoUp.parsable)
            THEN breply[r].status = 500
            ELSE /\ geoUp.kind = "response"
                 /\ geoUp.status # 200 \/ geoUp.erro \/ geoUp.localidade = ""
                 /\ breply[r] = Reply(404, JSONMarshal([error |-> "can not find zipcode"]))

C5_Witness ==
    \E r \in Reqs :
        /\ pc[r] = "done"
        /\ geoCalls[r] = 1
        /\ geoUp.status = 200 /\ geoUp.erro
        /\ breply[r].status = 404

\* C6: a failure in the weather stage fixes svc-b's status: missing
\* credential 500, upstream error code 1006 gives 404, exhaustion of the
\* three attempts 500, any other non-200 upstream answer 500.
C6_WeatherFailureMapping ==
    \A r \in Reqs :
        (Terminal(r) /\ WeatherCalled(r)) =>
            /\ apiKey = "" => breply[r].status = 500
            /\ Exhausted(r) => breply[r].status = 500
            /\ (resp[r].open /\ resp[r].answer.decodable /\ resp[r].answer.status # 200) =>
                  breply[r].status = IF resp[r].answer.code = 1006 THEN 404 ELSE 500

C8_EdgeValidation ==
    \A r \in Reqs :
        (entry[r] = "edge" /\ epc[r] # "start" /\ body[r] = "ok") =>
            /\ (hop[r] # "none") <=> EightDigits(raw[r])
            /\ ~EightDigits(raw[r]) => ereply[r].status = 422

\* C9: for the same raw code and the same upstream behaviour, the status and
\* the JSON body a caller gets from svc-a are those svc-b gives to a caller
\* that posts the raw code to it directly.
C9_SameAtBothHops ==
    \A r1, r2 \in Reqs :
        ( /\ entry[r1] = "edge" /\ entry[r2] = "post"
          /\ raw[r1] = raw[r2] /\ body[r1] = body[r2]
          /\ epc[r1] = "done" /\ hop[r1] # "refused"
          /\ pc[r2] = "done" ) =>
            /\ ereply[r1].status = breply[r2].status
            /\ ereply[r1].body.json = breply[r2].body.json

\* C10: when svc-a's call to svc-b returns a response, svc-a answers with
\* that response's status and body bytes; when the call fails at transport
\* level (connection refused, or closed by svc-b without a response), svc-a
\* answers 500.
C10_Relay ==
    \A r \in Reqs :
        (entry[r] = "edge" /\ epc[r] = "done" /\ hop[r] # "none") =>
            IF hop[r] = "ok" /\ pc[r] = "done"
            THEN ereply[r] = breply[r]
            ELSE ereply[r].status = 500

C10_Witness ==
    \E r \in Reqs :
        /\ epc[r] = "done"
        /\ hop[r] = "ok"
        /\ pc[r] = "done"
        /\ breply[r].status = 404
        /\ ereply[r] = breply[r]

\* C11: for the same raw code and the same upstream behaviour, svc-b's
\* GET /weather/{cep} and its POST /weather give the same status and the
\* same body (or both give none).
C11_GetPostSame ==
    \A r1, r2 \in Reqs :
        ( /\ entry[r1] = "get" /\ entry[r2] = "post"
          /\ body[r2] = "ok"
          /\ raw[r1] = raw[r2]
          /\ Terminal(r1) /\ Terminal(r2) ) =>
            /\ pc[r1] = pc[r2]
            /\ cep[r1] = cep[r2]
            /\ breply[r1] = breply[r2]

C11_Witness ==
    \E r1, r2 \in Reqs :
        /\ entry[r1] = "get" /\ entry[r2] = "post"
        /\ raw[r1] = CepDashed /\ raw[r2] = CepDashed
        /\ breply[r1].status = 200
        /\ breply[r2] = breply[r1]

\* C12: a POST whose body cannot be read or cannot be parsed is answered 400
\* by svc-a and by svc-b alike; for such a request no code is validated, no
\* upstream is called and svc-a makes no call to svc-b.
C12_MalformedBody ==
    \A r \in Reqs :
        (body[r] # "ok") =>
            /\ cep[r] = <<>>
            /\ geoCalls[r] = 0
            /\ attempt[r] = 0 /\ sendAt[r] = <<>>
            /\ hop[r] = "none"
            /\ (entry[r] = "edge" /\ epc[r] = "done") =>
                  /\ ereply[r].status = 400
                  /\ pc[r] = "idle"
            /\ (entry[r] = "post" /\ pc[r] # "start") =>
                  /\ pc[r] = "done"
                  /\ breply[r].status = 400

C12_Witness ==
    \E r \in Reqs :
        /\ entry[r] = "edge"
        /\ body[r] = "unparsable"
        /\ epc[r] = "done"
        /\ ereply[r] = Reply(400, JSONEncode([error |-> "invalid request format"]))

\* round to 1/100 degree, half up: the greatest multiple of 1/100 that is at
\* most num + 1/200 (num in 1/10000 degree)
HalfUp(num) == (num + 50) \div 100

\* C13: when the weather upstream gives a Celsius value c and no Fahrenheit
\* value, GetTemperature returns Fahrenheit c*1.8+32 and Kelvin c+273.15,
\* each rounded half up to two decimals, for negative c too.
C13_DerivedReadings ==
    \A r \in Reqs :
        (pc[r] = "done" /\ breply[r].status = 200 /\ resp[r].answer.temp_f = 0) =>
            /\ temp[r].TempF = HalfUp(resp[r].answer.temp_c * 18 + 320000)
            /\ temp[r].TempK = HalfUp(resp[r].answer.temp_c * 10 + 2731500)

\* C14: two requests with the same entry point, the same raw code and the
\* same body, served under the same upstream behaviour, end the same way:
\* same errors, same temperature, same status and body.
C14_Idempotent ==
    \A r1, r2 \in Reqs :
        ( /\ r1 # r2
          /\ entry[r1] = entry[r2] /\ raw[r1] = raw[r2] /\ body[r1] = body[r2]
          /\ Terminal(r1) /\ Terminal(r2) ) =>
            /\ pc[r1] = pc[r2]
            /\ gerr[r1] = gerr[r2] /\ city[r1] = city[r2]
            /\ werr[r1] = werr[r2] /\ temp[r1] = temp[r2]
            /\ breply[r1] = breply[r2]

C14_Witness ==
    \E r1, r2 \in Reqs :
        /\ r1 # r2
        /\ entry[r1] = entry[r2] /\ raw[r1] = raw[r2]
        /\ Len(sendAt[r1]) = 2 /\ Len(sendAt[r2]) = 2
        /\ breply[r1].status = 200
        /\ breply[r2] = breply[r1]

\* C15: the stages of a request run in the order validation, GetCityByCEP,
\* GetTemperature and stop at the first failure: the geocoding upstream is
\* called only for a code that passed the length check, GetTemperature runs
\* only after GetCityByCEP returned a city without error, and a request
\* whose validation, GetCityByCEP or GetTemperature failed is finished.
C15_StageOrder ==
    \A r \in Reqs :
        /\ geoCalls[r] > 0 => (pc[r] \notin {"idle", "start"} /\ LenOK(cep[r]))
        /\ (pc[r] \notin {"idle", "start"} /\ ~LenOK(cep[r])) =>
              (pc[r] = "done" /\ geoCalls[r] = 0)
        /\ (attempt[r] > 0 \/ sendAt[r] # <<>> \/ werr[r] # NoErr) =>
              (geoCalls[r] = 1 /\ pc[r] # "geo" /\ gerr[r] = NoErr /\ city[r] # "")
        /\ gerr[r] # NoErr =>
              (pc[r] = "done" /\ attempt[r] = 0 /\ sendAt[r] = <<>> /\ werr[r] = NoErr)
        /\ werr[r] # NoErr => pc[r] = "done"

C15_Witness ==
    \E r \in Reqs :
        /\ pc[r] = "done"
        /\ geoCalls[r] = 1
        /\ gerr[r].sentinel = "ErrZipCodeNotFound"
        /\ apiKey = "key"
        /\ sendAt[r] = <<>>

\* the statuses of the error taxonomy, and 200
StatusTaxonomy == {200, 400, 404, 422, 500}

\* C16: no request handled by svc-b ends without a response: a request that
\* has ended has exactly one response, with a status of the taxonomy, and no
\* handler is aborted.
C16_AlwaysAnswered ==
    \A r \in Reqs :
        /\ pc[r] # "panic"
        /\ pc[r] = "done" =>
              (writes[r] = 1 /\ breply[r].status \in StatusTaxonomy)

\* C17: every client.Do of the retry loop starts before the deadline of the
\* context of GetTemperature.
C17_NoAttemptAfterDeadline ==
    \A r \in Reqs :
        \A i \in 1..Len(sendAt[r]) : sendAt[r][i] < deadline[r]

\* C18: a client.Do that returns a response is the last one of its call,
\* whatever the status: every earlier client.Do returned an error, the number
\* of sends is the number of transport failures plus one, and a response with
\* a status other than 200 becomes the error of the call.
C18_ResponseEndsLoop ==
    \A r \in Reqs :
        /\ Len(results[r]) = Len(sendAt[r])
        /\ \A i \in 1..Len(results[r]) :
              results[r][i] = "response" =>
                  /\ i = Len(results[r])
                  /\ i = weatherUp.failFirst + 1
                  /\ pc[r] \in {"classify", "done"}
                  /\ resp[r] = HTTPResp(weatherUp.answer)
        /\ resp[r].open =>
              /\ Len(sendAt[r]) = weatherUp.failFirst + 1
              /\ results[r][Len(results[r])] = "response"
        /\ (pc[r] = "done" /\ resp[r].open /\ resp[r].answer.status # 200) =>
              (werr[r] # NoErr /\ breply[r].status # 200)

C18_Witness ==
    \E r \in Reqs :
        /\ pc[r] = "done"
        /\ results[r] = <<"response">>
        /\ resp[r].answer.status = 403
        /\ werr[r].sentinel = "ErrWeatherAPIFailed"

C20_GeoClassification ==
    \A r \in Reqs :
        (geoCalls[r] > 0 /\ pc[r] # "geo") =>
            IF geoUp.kind = "transport"
            THEN city[r] = "" /\ handleCEPError(gerr[r]).status = 500
            ELSE IF geoUp.status # 200
            THEN city[r] = "" /\ gerr[r].sentinel = "ErrZipCodeNotFound"
            ELSE IF ~geoUp.parsable
            THEN city[r] = "" /\ gerr[r].sentinel = "ErrInternalServer"
            ELSE IF geoUp.erro \/ geoUp.localidade = ""
            THEN city[r] = "" /\ gerr[r].sentinel = "ErrZipCodeNotFound"
            ELSE city[r] = geoUp.localidade /\ gerr[r] = NoErr

C20_Witness ==
    \E r \in Reqs :
        /\ geoCalls[r] = 1
        /\ geoUp.status = 200 /\ ~geoUp.parsable
        /\ gerr[r].sentinel = "ErrInternalServer"
        /\ pc[r] = "done"

\* C21: the waits of the retry loop are 100ms after attempt 1 and 200ms
\* after attempt 2, and there is no wait after attempt 3, whether the attempt
\* failed in building the request or in sending it.
C21_BackoffBetweenAttempts ==
    \A r \in Reqs :
        /\ Len(sleeps[r]) <= maxRetries - 1
        /\ \A i \in 1..Len(sleeps[r]) : sleeps[r][i] = i * 100

\* C22: inside the retry loop the attempt counter is 1, 2 or 3, at most
\* three requests are sent to the weather upstream and never more than the
\* counter says, and a call that has not failed yet is at attempt 1 with
\* nothing sent, whatever earlier calls did.
C22_RetryState ==
    \A r \in Reqs :
        /\ pc[r] = "weather" => attempt[r] \in 1..maxRetries
        /\ Len(sendAt[r]) <= maxRetries
        /\ Len(sendAt[r]) <= attempt[r]
        /\ (pc[r] = "weather" /\ sleeps[r] = <<>>) =>
              (attempt[r] = 1 /\ sendAt[r] = <<>>)

C22_Witness ==
    \E r1, r2 \in Reqs :
        /\ r1 # r2
        /\ Exhausted(r1) /\ Len(sendAt[r1]) = maxRetries
        /\ pc[r2] = "weather"
        /\ attempt[r2] = 1

\* C23: GetCityByCEP sends at most one request to the geocoding upstream,
\* and exactly one once it has returned, whatever the upstream did.
C23_SingleGeoCall ==
    \A r \in Reqs :
        /\ geoCalls[r] <= 1
        /\ (pc[r] \notin {"idle", "start", "geo"} /\ LenOK(cep[r])) => geoCalls[r] = 1

C23_Witness ==
    \E r \in Reqs :
        /\ geoUp.kind = "transport"
        /\ pc[r] = "done"
        /\ geoCalls[r] = 1
        /\ breply[r].status = 500

\* everything the model keeps for request r
ReqState(r) ==
    <<epc[r], hop[r], ereply[r], bcep[r], pc[r], cep[r], geoCalls[r], city[r],
      gerr[r], attempt[r], resp[r], err[r], now[r], deadline[r], sleeps[r],
      sendAt[r], results[r], temp[r], werr[r], breply[r], writes[r]>>

\* C24: requests in flight together do not affect one another: a step
\* changes the state of one request only, and after every step the requests
\* with the same input that have ended have the same retry counter, sends,
\* waits, status and body, in every interleaving.
C24_Isolation ==
    [][ /\ Cardinality({r \in Reqs : ReqState(r)' # ReqState(r)}) <= 1
        /\ \A r1, r2 \in Reqs :
            ( /\ r1 < r2
              /\ Terminal(r1)' /\ Terminal(r2)'
              /\ entry[r1] = entry[r2] /\ raw[r1] = raw[r2] /\ body[r1] = body[r2] ) =>
                /\ attempt'[r1] = attempt'[r2]
                /\ results'[r1] = results'[r2]
                /\ sleeps'[r1] = sleeps'[r2]
                /\ breply'[r1] = breply'[r2] ]_vars

C24_Witness ==
    \E r1, r2 \in Reqs :
        /\ r1 # r2
        /\ pc[r1] = "weather" /\ pc[r2] = "weather"
        /\ attempt[r1] = 1
        /\ attempt[r2] = 3

C26_SingleWrite ==
    \A r \in Reqs :
        /\ writes[r] <= 1
        /\ writes[r] = 1 <=> pc[r] = "done"
        /\ writes[r] = 0 <=> breply[r] = NoReply
        /\ breply[r].status = 200 => (gerr[r] = NoErr /\ werr[r] = NoErr)

C26_Witness ==
    \E r \in Reqs :
        /\ writes[r] = 1
        /\ gerr[r] = NoErr
        /\ werr[r].sentinel = "ErrCityNotFound"
        /\ breply[r].status = 404

====
